---- MODULE Spec2Model ----
(***************************************************************************)
(* A model of orange-cli: the three tools (execute_bash, fs_read,          *)
(* fs_write) and the confirmation gate / session loop of the chat command. *)
(*                                                                         *)
(* Text is modelled as a sequence of one-character strings, so that the    *)
(* regular expressions, split/join, includes and replace of the source are *)
(* computed character by character.                                        *)
(***************************************************************************)
EXTENDS Integers, Sequences, FiniteSets, TLC

VARIABLES
    cmd,        \* execute_bash: the command handed to requiresAcceptance
    accept,     \* execute_bash: what requiresAcceptance returned for cmd
    fs,         \* the filesystem: what is at each path
    call,       \* the tool call in flight: tool, params, outcome and result
    question,   \* readline: the question waiting for the next line
    turn,       \* "idle", or "running" while agent.run is in flight
    gate,       \* agent runtime: the pending tool call and its gate state
    answers,    \* the lines the human typed in answer to toolConfirmation events
    confirmations, \* the calls of agent.handleToolConfirmation so far
    started,    \* the toolUseIds whose execute was started
    proc,       \* the process: running, or how it ended
    nextId,     \* the next toolUseId the runtime hands out
    shutdown,   \* agent.shutdown(): none, or done once it was awaited
    tally,      \* the session so far: lines read at the session prompt, calls
                \* of agent.run, runs that resolved, session prompts asked
    changes,    \* the parts of the diff of the last fileUpdateContent event
    terminal    \* the console.log calls made for that event

vars == <<cmd, accept, fs, call, question, turn, gate, answers, confirmations, started,
          proc, nextId, shutdown, tally, changes, terminal>>
bashVars == <<cmd, accept>>
toolVars == <<fs, call>>
chatVars == <<question, turn, gate, answers, confirmations, started, proc, nextId,
              shutdown, tally>>
termVars == <<changes, terminal>>

(***************************************************************************)
(* Text helpers (JavaScript string primitives).                            *)
(***************************************************************************)
Lower == <<"a","b","c","d","e","f","g","h","i","j","k","l","m",
           "n","o","p","q","r","s","t","u","v","w","x","y","z">>
Upper == <<"A","B","C","D","E","F","G","H","I","J","K","L","M",
           "N","O","P","Q","R","S","T","U","V","W","X","Y","Z">>
Digits == {"0","1","2","3","4","5","6","7","8","9"}

Range(s) == {s[i] : i \in DOMAIN s}

\* String.prototype.toLowerCase on one character
lowerChar(c) ==
    IF \E i \in DOMAIN Upper : Upper[i] = c
    THEN Lower[CHOOSE i \in DOMAIN Upper : Upper[i] = c]
    ELSE c

\* String.prototype.toLowerCase
toLowerCase(s) == [i \in DOMAIN s |-> lowerChar(s[i])]

\* s.substring(i, i + Len(w)) === w, with i counted from 0
At(s, i, w) ==
    /\ i >= 0
    /\ i + Len(w) <= Len(s)
    /\ \A k \in 1..Len(w) : s[i + k] = w[k]

\* String.prototype.startsWith
startsWith(s, w) == At(s, 0, w)

\* String.prototype.endsWith
endsWith(s, w) == At(s, Len(s) - Len(w), w)

\* String.prototype.includes
includes(s, w) == \E i \in 0..Len(s) : At(s, i, w)

\* String.prototype.indexOf (0-based; -1 when absent)
indexOf(s, w) ==
    IF includes(s, w)
    THEN CHOOSE i \in 0..Len(s) : At(s, i, w) /\ \A j \in 0..(i - 1) : ~At(s, j, w)
    ELSE -1

(***************************************************************************)
(* Regular-expression classes of the source's patterns.                    *)
(***************************************************************************)
\* \w
isWordChar(c) == c \in Range(Lower) \cup Range(Upper) \cup Digits \cup {"_"}

\* \s (the white space the model's texts can hold)
isSpace(c) == c \in {" ", "\t", "\n", "\r"}

\* . (anything but a line terminator)
isDot(c) == c \notin {"\n", "\r"}

\* \b between s[i] and s[i+1], i counted from 0
wordBoundary(s, i) ==
    (i >= 1 /\ isWordChar(s[i])) # (i < Len(s) /\ isWordChar(s[i + 1]))

\* /\bw\b/.test(s)
testWord(s, w) ==
    \E i \in 0..Len(s) :
        /\ At(s, i, w)
        /\ wordBoundary(s, i)
        /\ wordBoundary(s, i + Len(w))

\* /\bw\b.*t/.test(s)
testWordThen(s, w, t) ==
    \E i \in 0..Len(s) :
        /\ At(s, i, w)
        /\ wordBoundary(s, i)
        /\ wordBoundary(s, i + Len(w))
        /\ \E j \in (i + Len(w))..Len(s) :
              /\ At(s, j, t)
              /\ \A k \in (i + Len(w) + 1)..j : isDot(s[k])

\* s[a+1..b] is a non-empty run of characters satisfying the class
AllSpace(s, a, b) == a < b /\ \A k \in (a + 1)..b : isSpace(s[k])
AllRF(s, a, b) == a < b /\ \A k \in (a + 1)..b : s[k] \in {"r", "f"}

\* /\brm\s+(-[rf]+\s+)?\//.test(s)
testRmRooted(s) ==
    \E i \in 0..Len(s) :
        /\ wordBoundary(s, i)
        /\ At(s, i, <<"r","m">>)
        /\ \E j \in (i + 3)..Len(s) :
              /\ AllSpace(s, i + 2, j)
              /\ \/ At(s, j, <<"/">>)
                 \/ /\ At(s, j, <<"-">>)
                    /\ \E k \in (j + 2)..Len(s) :
                          /\ AllRF(s, j + 1, k)
                          /\ \E l \in (k + 1)..Len(s) :
                                /\ AllSpace(s, k, l)
                                /\ At(s, l, <<"/">>)

(***************************************************************************)
(* execute_bash: requiresAcceptance                                        *)
(***************************************************************************)
W_rm == <<"r","m">>
W_dd == <<"d","d">>
W_mkfs == <<"m","k","f","s">>
W_format == <<"f","o","r","m","a","t">>
W_sudo == <<"s","u","d","o">>
W_chmod == <<"c","h","m","o","d">>
W_shred == <<"s","h","r","e","d">>
W_wipe == <<"w","i","p","e">>
W_kill == <<"k","i","l","l">>
W_pkill == <<"p","k","i","l","l">>
W_truncate == <<"t","r","u","n","c","a","t","e">>
W_777 == <<"7","7","7">>
W_minus9 == <<"-","9">>

\* the pattern list with the rm pattern matching rm on any path
dangerousPatterns_anyRm(command) ==
    \/ testWord(command, W_rm)
    \/ testWord(command, W_dd)
    \/ testWord(command, W_mkfs)
    \/ testWord(command, W_format)
    \/ testWord(command, W_sudo)
    \/ testWordThen(command, W_chmod, W_777)
    \/ testWord(command, W_shred)
    \/ testWord(command, W_wipe)
    \/ testWordThen(command, W_kill, W_minus9)
    \/ testWord(command, W_pkill)
    \/ testWord(command, W_truncate)

\* dangerousPatterns.some(pattern => pattern.test(command))
dangerousPatterns(command) ==
    \/ testRmRooted(command)
    \/ testWord(command, W_dd)
    \/ testWord(command, W_mkfs)
    \/ testWord(command, W_format)
    \/ testWord(command, W_sudo)
    \/ testWordThen(command, W_chmod, W_777)
    \/ testWord(command, W_shred)
    \/ testWord(command, W_wipe)
    \/ testWordThen(command, W_kill, W_minus9)
    \/ testWord(command, W_pkill)
    \/ testWord(command, W_truncate)

\* params.command is <<text>> when present and <<>> when undefined
requiresAcceptance(params) ==
    LET command == IF params.command = <<>> THEN <<>> ELSE params.command[1]
    IN  dangerousPatterns(command)

(***************************************************************************)
(* The filesystem.  A node is what one path names: nothing (with or        *)
(* without its parent directory), a regular file, a directory, a file      *)
(* whose permissions deny reading and writing, or a path under a parent    *)
(* that cannot be created (mkdir fails).                                   *)
(***************************************************************************)
P_x == <<"/","x">>
P_tilde == <<"~","/","x">>
HOME == <<"/","h">>
Paths == {P_x, P_tilde, HOME \o <<"/","x">>}

NodeKinds == {"noparent", "missing", "file", "dir", "locked", "blocked"}
MissingNode == [kind |-> "missing", content |-> <<>>]
NoCall == [tool |-> "none"]

\* fs.access(path) resolves
canAccess(node) == node.kind \in {"file", "dir", "locked"}
\* fs.readFile(path) resolves
canRead(node) == node.kind = "file"
\* fs.mkdir(dirname(path), {recursive: true}) resolves
canMkdir(node) == node.kind # "blocked"
\* fs.writeFile(path) and fs.appendFile(path) resolve, once the parent exists
canWrite(node) == node.kind \in {"noparent", "missing", "file"}

(***************************************************************************)
(* JavaScript array and string primitives used by the file tools.          *)
(***************************************************************************)
Max(a, b) == IF a >= b THEN a ELSE b
Min(a, b) == IF a <= b THEN a ELSE b

RECURSIVE splitFrom(_, _, _)
\* the pieces of s from character i on, cur being the piece under way
splitFrom(s, i, cur) ==
    IF i > Len(s) THEN <<cur>>
    ELSE IF s[i] = "\n" THEN <<cur>> \o splitFrom(s, i + 1, <<>>)
    ELSE splitFrom(s, i + 1, Append(cur, s[i]))

\* content.split('\n')
split(s) == splitFrom(s, 1, <<>>)

RECURSIVE join(_)
\* lines.join('\n')
join(ls) ==
    IF ls = <<>> THEN <<>>
    ELSE IF Len(ls) = 1 THEN ls[1]
    ELSE ls[1] \o <<"\n">> \o join(Tail(ls))

\* Array.prototype.slice(begin, end)
slice(a, begin, end) ==
    LET n == Len(a)
        b == IF begin < 0 THEN Max(n + begin, 0) ELSE Min(begin, n)
        e == IF end < 0 THEN Max(n + end, 0) ELSE Min(end, n)
    IN  IF e <= b THEN <<>> ELSE SubSeq(a, b + 1, e)

\* String.prototype.slice(begin)
sliceFrom(s, begin) == SubSeq(s, begin + 1, Len(s))

\* a JavaScript value is truthy: an absent (<<>>) value, 0 and '' are not
truthyNum(opt) == opt # <<>> /\ opt[1] # 0
truthyStr(opt) == opt # <<>> /\ opt[1] # <<>>

\* the decimal digits of a small non-negative number
RECURSIVE numText(_)
numText(n) ==
    LET d == <<"0","1","2","3","4","5","6","7","8","9">>[(n % 10) + 1]
    IN  IF n < 10 THEN <<d>> ELSE numText(n \div 10) \o <<d>>

(***************************************************************************)
(* Results.  A tool returns a string; a fixed message is named by its tag  *)
(* and a payload (file content, lines, listing) is carried as text.        *)
(***************************************************************************)
Msg(tag) == [kind |-> "message", tag |-> tag, text |-> <<>>]
Text(t) == [kind |-> "text", tag |-> "", text |-> t]
Return(v) == [threw |-> FALSE, value |-> v]
Throw == [threw |-> TRUE, value |-> Msg("")]

(***************************************************************************)
(* fs_read                                                                 *)
(***************************************************************************)
\* new RegExp(pattern, 'i') throws a SyntaxError
invalidRegex(pattern) == \E i \in DOMAIN pattern : pattern[i] \in {"(", "[", "*"}

\* new RegExp(pattern, 'i').test(line), for a pattern of literal characters
regexTest(pattern, line) == includes(toLowerCase(line), toLowerCase(pattern))

\* params.path.startsWith('~') ? path.join(process.env.HOME, params.path.slice(1)) : params.path
expandedPath(path) ==
    IF startsWith(path, <<"~">>) THEN HOME \o sliceFrom(path, 1) ELSE path

\* Line mode, after the two presence checks
lineMode(lines, start_line, end_line) ==
    LET n == Len(lines)
        s1 == IF start_line < 0 THEN n + start_line + 1 ELSE start_line
        e1 == IF end_line < 0 THEN n + end_line + 1 ELSE end_line
        startLine == Max(1, s1)
        endLine == IF e1 = -1 THEN n ELSE Min(n, e1)
    IN  join(slice(lines, startLine - 1, endLine))

\* one context block: results.push(`${prefix}${j + 1}: ${lines[j]}`) for j in start..end
RECURSIVE contextBlock(_, _, _, _)
contextBlock(lines, i, j, endContext) ==
    IF j > endContext THEN <<>>
    ELSE <<(IF j = i THEN <<">"," ">> ELSE <<" "," ">>)
             \o numText(j + 1) \o <<":"," ">> \o lines[j + 1]>>
         \o contextBlock(lines, i, j + 1, endContext)

\* the loop over the lines, i counted from 0, results being what was pushed so far
RECURSIVE searchLoop(_, _, _, _, _)
searchLoop(lines, pattern, contextLines, i, results) ==
    IF i >= Len(lines) THEN results
    ELSE IF regexTest(pattern, lines[i + 1])
    THEN LET startContext == Max(0, i - contextLines)
             endContext == Min(Len(lines) - 1, i + contextLines)
             sep == IF Len(results) > 0 THEN <<<<"-","-">>>> ELSE <<>>
         IN  searchLoop(lines, pattern, contextLines, i + 1,
                        results \o sep \o contextBlock(lines, i, startContext, endContext))
    ELSE searchLoop(lines, pattern, contextLines, i + 1, results)

\* const contextLines = params.context_lines || 2
contextLinesOf(params) ==
    IF truthyNum(params.context_lines) THEN params.context_lines[1] ELSE 2

\* Search mode, after the pattern check and the RegExp construction
searchMode(lines, params) ==
    LET results == searchLoop(lines, params.pattern[1], contextLinesOf(params), 0, <<>>)
    IN  IF Len(results) > 0 THEN Text(join(results)) ELSE Msg("No matches found")

\* the body of FsReadTool.execute's try block; execOk: the ls/find subprocess succeeds
fsReadBody(files, params, execOk) ==
    IF params.path = <<>> THEN Throw                 \* undefined.startsWith
    ELSE
    LET node == files[expandedPath(params.path[1])]
        lines == split(node.content)
    IN  IF ~canAccess(node) THEN Return(Msg("Path does not exist yet"))
        ELSE IF params.mode = "Directory"
        THEN IF node.kind # "dir" THEN Return(Msg("Path is not a directory"))
             ELSE IF ~execOk THEN Throw             \* execAsync rejects
             ELSE IF truthyNum(params.depth) THEN Return(Msg("find stdout"))
             ELSE Return(Msg("ls -la stdout"))
        ELSE IF node.kind = "dir" THEN Return(Msg("Path is not a file"))
        ELSE IF ~canRead(node) THEN Throw            \* fs.readFile rejects
        ELSE IF params.mode = "Full" THEN Return(Text(node.content))
        ELSE IF params.mode = "Line"
        THEN IF ~truthyNum(params.start_line) \/ ~truthyNum(params.end_line) THEN Throw
             ELSE Return(Text(lineMode(lines, params.start_line[1], params.end_line[1])))
        ELSE IF params.mode = "Search"
        THEN IF ~truthyStr(params.pattern)
             THEN Return(Msg("Search pattern is required for Search mode"))
             ELSE IF invalidRegex(params.pattern[1]) THEN Throw
             ELSE Return(searchMode(lines, params))
        ELSE Return(Msg("Invalid mode specified"))

\* the try block without its catch: what is thrown leaves execute
catchError_rethrow(r) ==
    IF r.threw THEN [outcome |-> "threw", result |-> Msg("")]
    ELSE [outcome |-> "returned", result |-> r.value]

\* try { ... } catch (error) { return `Error: ${error.message}` }
catchError(r) ==
    IF r.threw THEN [outcome |-> "returned", result |-> Msg("Error: message")]
    ELSE [outcome |-> "returned", result |-> r.value]

\* FsReadTool.execute
fsReadExecute(files, params, execOk) == catchError(fsReadBody(files, params, execOk))

(***************************************************************************)
(* fs_write                                                                *)
(***************************************************************************)
\* the strings fs_write returns that begin with "Error:"
ErrorTags ==
    {"Error: file_text parameter is required for create command",
     "Error: old_str and new_str parameters are required for str_replace command",
     "Error: new_str and insert_line parameters are required for insert command",
     "Error: new_str parameter is required for append command",
     "Error: Could not read file",
     "Error: The string to replace was not found",
     "Error: Insert line is out of range",
     "Error: Unsupported command",
     "Error: message"}

isError(r) == r.kind = "message" /\ r.tag \in ErrorTags

\* GetSubstitution of String.prototype.replace with a string pattern (no
\* captures): $$ is $, $& the match, $` what precedes it, $' what follows it;
\* any other $ stays as it is.  i is the position in the template, from 1.
\* the character ` (which a TLA+ string cannot hold)
Backtick == "BACKTICK"

RECURSIVE getSubstitution(_, _, _, _, _)
getSubstitution(template, i, matched, before, after) ==
    IF i > Len(template) THEN <<>>
    ELSE IF template[i] = "$" /\ i < Len(template)
    THEN LET c == template[i + 1]
         IN  IF c = "$"
             THEN <<"$">> \o getSubstitution(template, i + 2, matched, before, after)
             ELSE IF c = "&"
             THEN matched \o getSubstitution(template, i + 2, matched, before, after)
             ELSE IF c = Backtick
             THEN before \o getSubstitution(template, i + 2, matched, before, after)
             ELSE IF c = "'"
             THEN after \o getSubstitution(template, i + 2, matched, before, after)
             ELSE <<"$">> \o getSubstitution(template, i + 1, matched, before, after)
    ELSE <<template[i]>> \o getSubstitution(template, i + 1, matched, before, after)

\* fileContent.replace(old_str, new_str), old_str occurring in fileContent
replace(fileContent, old_str, new_str) ==
    LET pos == indexOf(fileContent, old_str)
        before == SubSeq(fileContent, 1, pos)
        after == SubSeq(fileContent, pos + Len(old_str) + 1, Len(fileContent))
    IN  before \o getSubstitution(new_str, 1, old_str, before, after) \o after

\* lines.splice(insert_line, 1, new_str): the line at insert_line is removed
splice_deleteOne(lines, insert_line, new_str) ==
    SubSeq(lines, 1, insert_line) \o <<new_str>> \o SubSeq(lines, insert_line + 2, Len(lines))

\* lines.splice(insert_line, 0, new_str)
splice(lines, insert_line, new_str) ==
    SubSeq(lines, 1, insert_line) \o <<new_str>> \o SubSeq(lines, insert_line + 1, Len(lines))

FileNode(content) == [kind |-> "file", content |-> content]
WriteReturn(v, files) == [threw |-> FALSE, value |-> v, files |-> files]
WriteThrow(files) == [threw |-> TRUE, value |-> Msg(""), files |-> files]

\* await fs.writeFile(path, data), then return the message
writeFile(files, path, data, tag) ==
    IF canWrite(files[path])
    THEN WriteReturn(Msg(tag), [files EXCEPT ![path] = FileNode(data)])
    ELSE WriteThrow(files)

\* case 'str_replace' without the check that old_str is in the file
strReplace_noCheck(files, path, params) ==
    IF ~canRead(files[path]) THEN WriteReturn(Msg("Error: Could not read file"), files)
    ELSE IF ~includes(files[path].content, params.old_str[1])
    THEN writeFile(files, path, files[path].content, "File modified successfully")
    ELSE writeFile(files, path,
                   replace(files[path].content, params.old_str[1], params.new_str[1]),
                   "File modified successfully")

\* case 'str_replace'
strReplace(files, path, params) ==
    IF ~canRead(files[path]) THEN WriteReturn(Msg("Error: Could not read file"), files)
    ELSE IF ~includes(files[path].content, params.old_str[1])
    THEN WriteReturn(Msg("Error: The string to replace was not found"), files)
    ELSE writeFile(files, path,
                   replace(files[path].content, params.old_str[1], params.new_str[1]),
                   "File modified successfully")

\* case 'insert'
insert(files, path, params) ==
    IF ~canRead(files[path]) THEN WriteReturn(Msg("Error: Could not read file"), files)
    ELSE LET lines == split(files[path].content)
             insert_line == params.insert_line[1]
         IN  IF insert_line < 0 \/ insert_line > Len(lines)
             THEN WriteReturn(Msg("Error: Insert line is out of range"), files)
             ELSE writeFile(files, path, join(splice(lines, insert_line, params.new_str[1])),
                            "Content inserted successfully")

\* case 'append' with the separator put before new_str whatever the file ends with
append_alwaysNewline(files, path, params) ==
    IF ~canAccess(files[path])
    THEN writeFile(files, path, params.new_str[1], "File created and content appended")
    ELSE IF ~canRead(files[path]) THEN WriteReturn(Msg("Error: Could not read file"), files)
    ELSE writeFile(files, path, files[path].content \o <<"\n">> \o params.new_str[1],
                   "Content appended successfully")

\* case 'append'
append(files, path, params) ==
    IF ~canAccess(files[path])
    THEN writeFile(files, path, params.new_str[1], "File created and content appended")
    ELSE IF ~canRead(files[path]) THEN WriteReturn(Msg("Error: Could not read file"), files)
    ELSE LET fileContent == files[path].content
             contentToAppend == IF endsWith(fileContent, <<"\n">>)
                                THEN params.new_str[1]
                                ELSE <<"\n">> \o params.new_str[1]
         IN  writeFile(files, path, fileContent \o contentToAppend,
                       "Content appended successfully")

\* await fs.mkdir(path.dirname(params.path), { recursive: true })
mkdir(files, path) ==
    IF files[path].kind = "noparent" THEN [files EXCEPT ![path].kind = "missing"] ELSE files

\* the body of FsWriteTool.execute's try block
fsWriteBody(files, params) ==
    IF params.command = "create" /\ ~truthyStr(params.file_text)
    THEN WriteReturn(Msg("Error: file_text parameter is required for create command"), files)
    ELSE IF params.command = "str_replace"
            /\ (~truthyStr(params.old_str) \/ ~truthyStr(params.new_str))
    THEN WriteReturn(
           Msg("Error: old_str and new_str parameters are required for str_replace command"),
           files)
    ELSE IF params.command = "insert"
            /\ (~truthyStr(params.new_str) \/ params.insert_line = <<>>)
    THEN WriteReturn(
           Msg("Error: new_str and insert_line parameters are required for insert command"),
           files)
    ELSE IF params.command = "append" /\ ~truthyStr(params.new_str)
    THEN WriteReturn(Msg("Error: new_str parameter is required for append command"), files)
    ELSE IF params.path = <<>> THEN WriteThrow(files)          \* path.dirname(undefined)
    ELSE IF ~canMkdir(files[params.path[1]]) THEN WriteThrow(files)
    ELSE LET path == params.path[1]
             made == mkdir(files, path)
         IN  IF params.command = "create"
             THEN writeFile(made, path, params.file_text[1], "File created successfully")
             ELSE IF params.command = "str_replace" THEN strReplace(made, path, params)
             ELSE IF params.command = "insert" THEN insert(made, path, params)
             ELSE IF params.command = "append" THEN append(made, path, params)
             ELSE WriteReturn(Msg("Error: Unsupported command"), made)

\* FsWriteTool.execute: try { ... } catch (error) { return `Error: ${error.message}` }
fsWriteExecute(files, params) ==
    LET r == fsWriteBody(files, params)
    IN  [outcome |-> "returned",
         result |-> IF r.threw THEN Msg("Error: message") ELSE r.value,
         files |-> r.files]

(***************************************************************************)
(* execute_bash: execute                                                   *)
(***************************************************************************)
\* the exit status with a missing code taken for 0
exitStatusOf_nullIsZero(code) ==
    IF code.t = "null" THEN <<"0">>
    ELSE IF code.t = "number" THEN numText(code.v)
    ELSE IF code.v = <<>> THEN <<"0">>
    ELSE code.v

\* error.code?.toString() || '1'; code is null (or undefined), a number or a string
exitStatusOf(code) ==
    IF code.t = "null" THEN <<"1">>
    ELSE IF code.t = "number" THEN numText(code.v)
    ELSE IF code.v = <<>> THEN <<"1">>
    ELSE code.v

\* the catch block of ExecuteBashTool.execute
bashCatch(error) ==
    [stdout |-> IF truthyStr(error.stdout) THEN error.stdout[1] ELSE <<>>,
     stderr |-> IF truthyStr(error.stderr) THEN error.stderr[1] ELSE error.message,
     exit_status |-> exitStatusOf(error.code)]

E_INVALID_ARG == <<"E","R","R","_","I","N","V","A","L","I","D","_","A","R","G","_","T","Y","P","E">>
E_NOENT == <<"E","N","O","E","N","T">>
M_failed == <<"C","o","m","m","a","n","d"," ","f","a","i","l","e","d">>
M_invalid == <<"i","n","v","a","l","i","d">>

\* what execAsync(params.command) does, run being what the subprocess did:
\* resolve with {stdout, stderr}, or reject with an error carrying the
\* code, stdout and stderr of the failed run
execAsync(params, run) ==
    IF params.command = <<>>
    THEN [ok |-> FALSE,
          error |-> [stdout |-> <<>>, stderr |-> <<>>, message |-> M_invalid,
                     code |-> [t |-> "string", v |-> E_INVALID_ARG]]]
    ELSE IF run.how = "exit" /\ run.code = 0
    THEN [ok |-> TRUE, stdout |-> run.stdout, stderr |-> run.stderr]
    ELSE [ok |-> FALSE,
          error |-> [stdout |-> <<run.stdout>>, stderr |-> <<run.stderr>>,
                     message |-> M_failed,
                     code |-> IF run.how = "exit" THEN [t |-> "number", v |-> run.code]
                              ELSE IF run.how = "signal" THEN [t |-> "null", v |-> 0]
                              ELSE [t |-> "string", v |-> E_NOENT]]]

\* ExecuteBashTool.execute (console.log(params.command) comes first and
\* never throws for a params object)
bashExecute(params, run) ==
    LET r == execAsync(params, run)
    IN  [outcome |-> "returned",
         result |-> IF r.ok
                    THEN [stdout |-> r.stdout, stderr |-> r.stderr, exit_status |-> <<"0">>]
                    ELSE bashCatch(r.error)]

(***************************************************************************)
(* The chat session before its first prompt (and throughout the            *)
(* specifications of the tools alone).                                     *)
(***************************************************************************)
NoQuestion == [kind |-> "none", toolUseId |-> 0]
NoGate == [state |-> "none", id |-> 0]

NoTally == [lines |-> 0, runs |-> 0, completed |-> 0, prompts |-> 0]

TermIdle ==
    /\ changes = <<>>
    /\ terminal = <<>>

ChatIdle ==
    /\ shutdown = "none"
    /\ tally = NoTally
    /\ question = NoQuestion
    /\ turn = "idle"
    /\ gate = NoGate
    /\ answers = <<>>
    /\ confirmations = <<>>
    /\ started = {}
    /\ proc = "running"
    /\ nextId = 1

(***************************************************************************)
(* The commands requiresAcceptance is asked about: a program name followed *)
(* by up to MaxArgs words, joined by single spaces.                        *)
(***************************************************************************)
MaxArgs == 3

W_ls == <<"l","s">>
W_echo == <<"e","c","h","o">>
W_cat == <<"c","a","t">>

Programs ==
    {W_rm, W_dd, W_mkfs, W_format, W_sudo, W_chmod, W_shred, W_wipe, W_kill,
     W_pkill, W_truncate, W_ls, W_echo, W_cat}

A_r == <<"-","r">>
A_f == <<"-","f">>
A_v == <<"-","v">>
A_rootx == <<"/","x">>
A_x == <<"x">>
A_rootdd == <<"/","d","d">>

ArgWords == {A_r, A_f, A_v, W_minus9, A_rootx, A_x, W_777, W_format, A_rootdd, W_kill}

ArgLists == UNION {[1..n -> ArgWords] : n \in 0..MaxArgs}

Commands == [prog : Programs, args : ArgLists, given : {TRUE}]
            \cup {[prog |-> <<>>, args |-> <<>>, given |-> FALSE]}

RECURSIVE SpaceJoin(_)
SpaceJoin(ws) == IF ws = <<>> THEN <<>> ELSE <<" ">> \o Head(ws) \o SpaceJoin(Tail(ws))

\* the raw command text of a command
CommandText(c) == c.prog \o SpaceJoin(c.args)

\* the params object handed to the tool: command is undefined when not given
BashParams(c) == [command |-> IF c.given THEN <<CommandText(c)>> ELSE <<>>]

InitBash ==
    /\ cmd \in Commands
    /\ accept = "unasked"
    /\ fs = [p \in Paths |-> MissingNode]
    /\ call = NoCall
    /\ ChatIdle
    /\ TermIdle

\* the agent runtime asks the tool whether the call needs confirmation
RequiresAcceptance ==
    /\ accept = "unasked"
    /\ accept' = IF requiresAcceptance(BashParams(cmd)) THEN "true" ELSE "false"
    /\ UNCHANGED <<cmd, toolVars, chatVars, termVars>>

NextBash == RequiresAcceptance

SpecBash == InitBash /\ [][NextBash]_vars

(***************************************************************************)
(* What a command does, read off its program name and its words.           *)
(***************************************************************************)
SingleWordTools == {W_dd, W_mkfs, W_format, W_sudo, W_shred, W_wipe, W_pkill, W_truncate}

\* the command performs one of the listed destructive operations
Destructive(c) ==
    /\ c.given
    /\ \/ c.prog = W_rm /\ \E k \in DOMAIN c.args : Head(c.args[k]) = "/"
       \/ c.prog \in SingleWordTools
       \/ c.prog = W_chmod /\ \E k \in DOMAIN c.args : c.args[k] = W_777
       \/ c.prog = W_kill /\ \E k \in DOMAIN c.args : c.args[k] = W_minus9

\* C3: requiresAcceptance returns true for every command that performs a
\* listed destructive operation, rm on a rooted path with any flag spelling
\* included.
C3_DestructiveAccepted ==
    (accept # "unasked" /\ Destructive(cmd)) => accept = "true"

\* C4 as stated: requiresAcceptance returns false for every benign command,
\* also one that merely mentions a listed word as an argument or a path.
C4_BenignRejected ==
    (accept # "unasked" /\ ~Destructive(cmd)) => accept = "false"

\* the words of a command, program name first
WordsOf(c) == IF c.given THEN <<c.prog>> \o c.args ELSE <<>>

\* a word without its leading "/" or "-"
Bare(w) == IF w # <<>> /\ Head(w) \in {"/", "-"} THEN Tail(w) ELSE w

\* the command's text spells one of the listed idioms somewhere, as the
\* command itself or as a mere mention
SpellsIdiom(c) ==
    LET ws == WordsOf(c)
    IN  \/ \E k \in DOMAIN ws : Bare(ws[k]) \in SingleWordTools
        \/ \E k \in DOMAIN ws : \E l \in DOMAIN ws :
              k < l /\ ws[k] = W_chmod /\ ws[l] = W_777
        \/ \E k \in DOMAIN ws : \E l \in DOMAIN ws :
              k < l /\ ws[k] = W_kill /\ ws[l] = W_minus9
        \/ \E k \in DOMAIN ws :
              /\ ws[k] = W_rm
              /\ k + 1 \in DOMAIN ws
              /\ \/ Head(ws[k + 1]) = "/"
                 \/ /\ ws[k + 1] \in {A_r, A_f}
                    /\ k + 2 \in DOMAIN ws
                    /\ Head(ws[k + 2]) = "/"

\* C4 (amended): requiresAcceptance returns false for every command whose
\* text spells none of the listed idioms; a benign command that mentions a
\* listed word as an argument or a path is answered true.
C4_NoIdiomRejected ==
    (accept # "unasked" /\ ~SpellsIdiom(cmd)) => accept = "false"

\* kill -v was asked about and answered false
C4_Witness ==
    /\ accept = "false"
    /\ cmd.given
    /\ cmd.prog = W_kill
    /\ cmd.args = <<A_v>>

(***************************************************************************)
(* The tools at work: each step is one call of one tool's execute, on the  *)
(* file at P_x, with params drawn from the sets below.                     *)
(***************************************************************************)
MaxLen == 4         \* the longest file content
MaxLine == 3        \* line numbers range over -(MaxLine+3)..(MaxLine+2)
MaxExit == 2        \* the largest exit code of a subprocess

FileChars == {"a", "b", "\n"}
Contents == UNION {[1..n -> FileChars] : n \in 0..MaxLen}

InitNodes ==
    {[kind |-> k, content |-> <<>>] : k \in {"noparent", "missing", "dir", "blocked"}}
    \cup {[kind |-> "locked", content |-> <<"a">>]}
    \cup {FileNode(c) : c \in Contents}

None == <<>>
Opt(S) == {None} \cup {<<v>> : v \in S}

LineRange == (0 - (MaxLine + 3))..(MaxLine + 2)

NoReadParams ==
    [path |-> <<P_x>>, mode |-> "Full", start_line |-> None, end_line |-> None,
     depth |-> None, pattern |-> None, context_lines |-> None]

ReadParams ==
    {[NoReadParams EXCEPT !.path = p] : p \in {None, <<P_x>>}}
    \cup {[NoReadParams EXCEPT !.mode = "Bogus"]}
    \cup {[NoReadParams EXCEPT !.mode = "Directory", !.depth = d] : d \in Opt({0, 1})}
    \cup {[NoReadParams EXCEPT !.mode = "Line", !.start_line = s, !.end_line = e] :
            s \in Opt(LineRange), e \in Opt(LineRange)}
    \cup {[NoReadParams EXCEPT !.mode = "Search", !.pattern = pt, !.context_lines = c] :
            pt \in Opt({<<>>, <<"A">>, <<"(">>}), c \in Opt(0..2)}

NoWriteParams ==
    [command |-> "create", path |-> <<P_x>>, file_text |-> None, old_str |-> None,
     new_str |-> None, insert_line |-> None]

NewStrs == {<<>>, <<"b">>, <<"$","&">>, <<"a","$",Backtick>>}

WriteParams ==
    {[NoWriteParams EXCEPT !.file_text = t] : t \in Opt({<<>>, <<"a">>, <<"a","\n","b">>})}
    \cup {[NoWriteParams EXCEPT !.command = c, !.path = None, !.file_text = <<<<"a">>>>,
                                !.new_str = <<<<"b">>>>] : c \in {"create", "append"}}
    \cup {[NoWriteParams EXCEPT !.command = "delete"]}
    \cup {[NoWriteParams EXCEPT !.command = "str_replace", !.old_str = o, !.new_str = n] :
            o \in Opt({<<>>, <<"a">>, <<"a","b">>}), n \in Opt(NewStrs)}
    \cup {[NoWriteParams EXCEPT !.command = "insert", !.new_str = n, !.insert_line = l] :
            n \in Opt({<<>>, <<"b">>}), l \in Opt(-1..(MaxLine + 2))}
    \cup {[NoWriteParams EXCEPT !.command = "append", !.new_str = n] :
            n \in Opt({<<>>, <<"b">>, <<"b","\n">>})}

Outputs == {<<>>, <<"o">>}
Runs ==
    [how : {"exit"}, code : 0..MaxExit, stdout : Outputs, stderr : Outputs]
    \cup [how : {"signal"}, code : {0}, stdout : Outputs, stderr : Outputs]
    \cup [how : {"spawn"}, code : {0}, stdout : {<<>>}, stderr : {<<>>}]

InitTools ==
    /\ cmd = [prog |-> W_ls, args |-> <<>>, given |-> TRUE]
    /\ accept = "unasked"
    /\ \E n \in InitNodes : fs = [p \in Paths |-> IF p = P_x THEN n ELSE MissingNode]
    /\ call = NoCall
    /\ ChatIdle
    /\ TermIdle

\* the agent runtime calls ExecuteBashTool.execute(params)
BashExecute ==
    \E given \in BOOLEAN, run \in Runs :
        LET params == [command |-> IF given THEN <<CommandText(cmd)>> ELSE None]
            r == bashExecute(params, run)
        IN  /\ call = NoCall
            /\ call' = [tool |-> "execute_bash", params |-> params, run |-> run,
                        outcome |-> r.outcome, result |-> r.result]
            /\ UNCHANGED <<fs, bashVars, chatVars, termVars>>

\* the agent runtime calls FsReadTool.execute(params)
FsReadExecute ==
    \E params \in ReadParams, execOk \in BOOLEAN :
        LET r == fsReadExecute(fs, params, execOk)
        IN  /\ call = NoCall
            /\ call' = [tool |-> "fs_read", params |-> params,
                        outcome |-> r.outcome, result |-> r.result]
            /\ UNCHANGED <<fs, bashVars, chatVars, termVars>>

\* the agent runtime calls FsWriteTool.execute(params)
FsWriteExecute ==
    \E params \in WriteParams :
        LET r == fsWriteExecute(fs, params)
        IN  /\ call = NoCall
            /\ Len(r.files[P_x].content) <= MaxLen
            /\ fs' = r.files
            /\ call' = [tool |-> "fs_write", params |-> params, before |-> fs[P_x],
                        outcome |-> r.outcome, result |-> r.result]
            /\ UNCHANGED <<bashVars, chatVars, termVars>>

\* the agent runtime takes the result; tool calls are issued one at a time
ToolEnd ==
    /\ call # NoCall
    /\ call' = NoCall
    /\ UNCHANGED <<fs, bashVars, chatVars, termVars>>

NextTools == BashExecute \/ FsReadExecute \/ FsWriteExecute \/ ToolEnd

SpecTools == InitTools /\ [][NextTools]_vars

(***************************************************************************)
(* The chat session: the session loop (prompt, promptUser), the            *)
(* toolConfirmation handler, and the agent runtime's confirmation gate.    *)
(***************************************************************************)
MaxCalls == 2       \* the tool calls the runtime issues in one session
MaxTurns == 2       \* the lines forwarded to the agent in one session

T_quit == <<"/","q","u","i","t">>
T_y == <<"y">>

\* the lines a human may type
Answers ==
    {<<>>, <<"y">>, <<"Y">>, <<"y","e","s">>, <<" ","y">>, <<"n">>, T_quit,
     <<"/","Q","U","I","T">>, <<"h","i">>}

\* the commands the runtime asks execute_bash to run in a session
GateCommands ==
    {[prog |-> W_ls, args |-> <<>>, given |-> TRUE],
     [prog |-> W_rm, args |-> <<A_rootx>>, given |-> TRUE],
     [prog |-> W_sudo, args |-> <<A_x>>, given |-> TRUE]}

\* createAgent({ ..., acceptAll: false, ... })
acceptAll == FALSE

\* input.toLowerCase() === '/quit'
isQuit(input) == toLowerCase(input) = T_quit

\* the toolConfirmation answer taken as approval by any line that begins with y
isApproval_prefix(answer) == startsWith(toLowerCase(answer), T_y)

\* answer.toLowerCase() === 'y'
isApproval(answer) == toLowerCase(answer) = T_y

\* the callback of the toolConfirmation question, as the calls it makes
\* of agent.handleToolConfirmation:
\* (answer) => { agent.handleToolConfirmation(event.toolUseId, answer.toLowerCase() === 'y') }
confirmationCallback(toolUseId, answer) ==
    <<[toolUseId |-> toolUseId, approved |-> isApproval(answer)]>>

\* rl.question(query, callback): the callback waits for the next line; a
\* question asked while another one waits is dropped
rlQuestion(pending, kind, id) ==
    IF pending.kind = "none" THEN [kind |-> kind, toolUseId |-> id] ELSE pending

\* the runtime's gate on a new tool call: Requested -> Approved(auto) when
\* no acceptance is required, Requested -> AwaitingHuman otherwise
gateRequest(id, needsAcceptance) ==
    IF acceptAll \/ ~needsAcceptance
    THEN [state |-> "Executing", id |-> id]
    ELSE [state |-> "AwaitingHuman", id |-> id]

\* agent.handleToolConfirmation(toolUseId, approved), as the runtime takes it:
\* AwaitingHuman -> Approved (execute starts) or Denied (it never does)
handleToolConfirmation(g, toolUseId, approved) ==
    IF g.state = "AwaitingHuman" /\ g.id = toolUseId
    THEN [state |-> IF approved THEN "Executing" ELSE "Denied", id |-> g.id]
    ELSE g

\* readline hands a line to the callback of the question that waits, the
\* session prompt's taken first even while a confirmation waits
lineCallback_promptFirst(pending) ==
    IF pending.kind = "confirm" THEN "prompt" ELSE pending.kind

\* readline hands a line to the callback of the question that waits:
\* prompt's (rl.question in prompt) or the toolConfirmation handler's
lineCallback(pending) == pending.kind

\* success without its await: promptUser() is called as soon as agent.run
\* has been called
success_noAwait(pending) == rlQuestion(pending, "prompt", 0)

\* success: async (input) => { await agent.run(input); promptUser(); } up to
\* its await: agent.run was called, promptUser was not
success(pending) == pending

\* the name agent, declared inside the chat action, resolves inside prompt
agentInScope == FALSE

\* the /quit branch of prompt's callback after rl.close():
\* await agent.shutdown(); process.exit(0).  When agent does not resolve
\* the ReferenceError rejects the callback's promise, which nothing
\* handles: the process dies of it (crash) or only warns and lives on
quitBranch(crash) ==
    IF agentInScope
    THEN [shutdown |-> "done", proc |-> "exit0"]
    ELSE [shutdown |-> "none", proc |-> IF crash THEN "crashed" ELSE "running"]

InitChat ==
    /\ TermIdle
    /\ shutdown = "none"
    /\ tally = [NoTally EXCEPT !.prompts = 1]
    /\ cmd = [prog |-> W_ls, args |-> <<>>, given |-> TRUE]
    /\ accept = "unasked"
    /\ fs = [p \in Paths |-> MissingNode]
    /\ call = NoCall
    /\ question = [kind |-> "prompt", toolUseId |-> 0]     \* promptUser()
    /\ turn = "idle"
    /\ gate = NoGate
    /\ answers = <<>>
    /\ confirmations = <<>>
    /\ started = {}
    /\ proc = "running"
    /\ nextId = 1

\* the callback of prompt's rl.question, on a line other than /quit:
\* success(input) starts agent.run(input)
PromptLine ==
    \E input \in Answers :
        LET q == success(NoQuestion)
        IN  /\ proc = "running"
            /\ question.kind # "closed"
            /\ lineCallback(question) = "prompt"
            /\ ~isQuit(input)
            /\ tally.lines < MaxTurns
            /\ question' = q
            /\ turn' = "running"
            /\ tally' = [tally EXCEPT !.lines = @ + 1, !.runs = @ + 1,
                                      !.prompts = @ + (IF q.kind = "prompt" THEN 1 ELSE 0)]
            /\ UNCHANGED <<gate, answers, confirmations, started, proc, nextId, shutdown,
                           bashVars, toolVars, termVars>>

\* the callback of prompt's rl.question, on /quit: rl.close(), then
\* agent.shutdown() on a name that is not in scope in prompt; the rejection
\* of the async callback is unhandled, which ends the process with an
\* error or, on a runtime that only warns, leaves it without its readline
PromptQuit ==
    \E input \in Answers, crash \in BOOLEAN :
        LET r == quitBranch(crash)
        IN  /\ proc = "running"
            /\ question.kind # "closed"
            /\ lineCallback(question) = "prompt"
            /\ isQuit(input)
            /\ question' = [kind |-> "closed", toolUseId |-> 0]
            /\ proc' = r.proc
            /\ shutdown' = r.shutdown
            /\ UNCHANGED <<turn, gate, answers, confirmations, started, nextId, tally,
                           bashVars, toolVars, termVars>>

\* the runtime issues a tool call in the running turn; when the gate asks
\* for a human it emits toolConfirmation, whose handler asks the question
ToolRequest ==
    \E c \in GateCommands :
        LET g == gateRequest(nextId, requiresAcceptance(BashParams(c)))
        IN  /\ proc = "running"
            /\ turn = "running"
            /\ gate.state = "none"
            /\ nextId <= MaxCalls
            /\ gate' = g
            /\ nextId' = nextId + 1
            /\ started' = IF g.state = "Executing" THEN started \cup {g.id} ELSE started
            /\ question' = IF g.state = "AwaitingHuman"
                           THEN rlQuestion(question, "confirm", g.id)
                           ELSE question
            /\ UNCHANGED <<turn, answers, confirmations, proc, shutdown, tally, bashVars,
                           toolVars, termVars>>

\* the human answers the toolConfirmation question; its callback runs and
\* the runtime takes the call it makes
ConfirmationAnswer ==
    \E answer \in Answers :
        LET calls == confirmationCallback(question.toolUseId, answer)
            g == handleToolConfirmation(gate, calls[1].toolUseId, calls[1].approved)
        IN  /\ proc = "running"
            /\ question.kind = "confirm"
            /\ lineCallback(question) = "confirm"
            /\ question' = NoQuestion
            /\ answers' = Append(answers, [toolUseId |-> question.toolUseId,
                                           answer |-> answer])
            /\ confirmations' = confirmations \o calls
            /\ gate' = g
            /\ started' = IF g.state = "Executing" THEN started \cup {g.id} ELSE started
            /\ UNCHANGED <<turn, proc, nextId, shutdown, tally, bashVars, toolVars, termVars>>

\* the tool's execute ends (toolEnd), or the runtime goes on after a denial
ToolDone ==
    /\ proc = "running"
    /\ gate.state \in {"Executing", "Denied"}
    /\ gate' = NoGate
    /\ UNCHANGED <<question, turn, answers, confirmations, started, proc, nextId, shutdown,
                   tally, bashVars, toolVars, termVars>>

\* agent.run resolves: promptUser() asks the next session prompt
RunCompletes ==
    /\ proc = "running"
    /\ turn = "running"
    /\ gate.state = "none"
    /\ turn' = "idle"
    /\ question' = rlQuestion(question, "prompt", 0)
    /\ tally' = [tally EXCEPT !.completed = @ + 1, !.prompts = @ + 1]
    /\ UNCHANGED <<gate, answers, confirmations, started, proc, nextId, shutdown, bashVars,
                   toolVars, termVars>>

\* agent.run rejects: the promise of the async success rejects past the
\* try/catch of prompt, which has returned; fail is not called and no
\* prompt is asked; the unhandled rejection ends the process (crash) or
\* only warns
RunFails ==
    \E crash \in BOOLEAN :
        /\ proc = "running"
        /\ turn = "running"
        /\ gate.state = "none"
        /\ turn' = "failed"
        /\ proc' = IF crash THEN "crashed" ELSE "running"
        /\ UNCHANGED <<question, gate, answers, confirmations, started, nextId, shutdown,
                       tally, bashVars, toolVars, termVars>>

\* systemClosed: process.exit(0)
SystemClosed ==
    /\ proc = "running"
    /\ turn = "running"
    /\ gate.state = "none"
    /\ proc' = "exit0"
    /\ UNCHANGED <<question, turn, gate, answers, confirmations, started, nextId, shutdown,
                   tally, bashVars, toolVars, termVars>>

NextChat ==
    \/ PromptLine
    \/ PromptQuit
    \/ ToolRequest
    \/ ConfirmationAnswer
    \/ ToolDone
    \/ RunCompletes
    \/ RunFails
    \/ SystemClosed

SpecChat == InitChat /\ [][NextChat]_vars

(***************************************************************************)
(* Properties of the confirmation gate.                                    *)
(***************************************************************************)
\* the calls of agent.handleToolConfirmation made for a toolUseId
CallsFor(id) == {j \in DOMAIN confirmations : confirmations[j].toolUseId = id}

\* C1: once the human answers a toolConfirmation event the core calls
\* agent.handleToolConfirmation exactly once with that event's toolUseId and
\* a boolean that is true if and only if the answer is exactly y or Y.
C1_ConfirmationCallback ==
    /\ \A i \in DOMAIN answers :
          /\ Cardinality(CallsFor(answers[i].toolUseId)) = 1
          /\ \A j \in CallsFor(answers[i].toolUseId) :
                confirmations[j].approved <=> answers[i].answer \in {<<"y">>, <<"Y">>}
    /\ \A j \in DOMAIN confirmations :
          \E i \in DOMAIN answers : answers[i].toolUseId = confirmations[j].toolUseId
    /\ question.kind = "confirm" =>
          /\ gate.state = "AwaitingHuman"
          /\ question.toolUseId = gate.id
          /\ CallsFor(gate.id) = {}

\* two events were answered: the first with yes (denied), the second with Y
C1_Witness ==
    /\ answers = <<[toolUseId |-> 1, answer |-> <<"y","e","s">>],
                   [toolUseId |-> 2, answer |-> <<"Y">>]>>
    /\ confirmations = <<[toolUseId |-> 1, approved |-> FALSE],
                         [toolUseId |-> 2, approved |-> TRUE]>>

\* the toolUseIds whose confirmation the human answered with a denial
Denied ==
    {answers[i].toolUseId :
        i \in {k \in DOMAIN answers : answers[k].answer \notin {<<"y">>, <<"Y">>}}}

\* C2: the execute of a tool call awaiting the human is not started before
\* the answer, and never when the answer is a denial; the denial is
\* reported as (toolUseId, false) and ends neither the turn nor the process.
C2_DenialNeverExecutes ==
    /\ gate.state = "AwaitingHuman" => gate.id \notin started
    /\ \A id \in Denied :
          /\ id \notin started
          /\ \E j \in DOMAIN confirmations :
                confirmations[j] = [toolUseId |-> id, approved |-> FALSE]
    /\ gate.state = "Denied" =>
          /\ gate.id \in Denied
          /\ proc = "running"
          /\ turn = "running"

\* /quit answered the confirmation of call 1: denied, not started, and the
\* session goes on
C2_Witness ==
    /\ gate = [state |-> "Denied", id |-> 1]
    /\ answers = <<[toolUseId |-> 1, answer |-> T_quit]>>
    /\ confirmations = <<[toolUseId |-> 1, approved |-> FALSE]>>
    /\ 1 \notin started
    /\ proc = "running"
    /\ turn = "running"

(***************************************************************************)
(* Properties of the tools.                                                *)
(***************************************************************************)
\* C5: for each of the three tools and every params object, execute
\* completes by returning a value; it never throws or rejects.
C5_ExecuteNeverThrows ==
    call.tool # "none" => call.outcome = "returned"

\* fs_read was handed an invalid regular expression and returned the error
C5_Witness ==
    /\ call.tool = "fs_read"
    /\ call.params.mode = "Search"
    /\ call.params.pattern = <<<<"(">>>>
    /\ fs[P_x].kind = "file"
    /\ call.outcome = "returned"
    /\ call.result = Msg("Error: message")

AllChars == Range(Lower) \cup Range(Upper) \cup Digits \cup {"_", " ", "\n", "$", "&"}
IsText(x) == x \in Seq(AllChars)

\* the subprocess of the call ran and ended with exit code 0
Succeeded(c) == c.params.command # None /\ c.run.how = "exit" /\ c.run.code = 0

\* C6: execute_bash returns a record of stdout, stderr and exit_status, the
\* exit status being a string that is "0" exactly when the subprocess
\* succeeded; after a failed run stdout and stderr are those of that run
\* (the error's message standing in for an empty stderr).
C6_BashResult ==
    call.tool = "execute_bash" =>
        /\ DOMAIN call.result = {"stdout", "stderr", "exit_status"}
        /\ IsText(call.result.exit_status)
        /\ IsText(call.result.stdout)
        /\ IsText(call.result.stderr)
        /\ (call.result.exit_status = <<"0">>) <=> Succeeded(call)
        /\ (~Succeeded(call) /\ call.params.command # None) =>
              /\ call.result.stdout = call.run.stdout
              /\ call.run.stderr # <<>> => call.result.stderr = call.run.stderr
              /\ call.result.stderr # <<>>

\* a subprocess killed by a signal after writing to stdout
C6_Witness ==
    /\ call.tool = "execute_bash"
    /\ call.params.command # None
    /\ call.run.how = "signal"
    /\ call.run.stdout = <<"o">>
    /\ call.result.stdout = <<"o">>
    /\ call.result.exit_status = <<"1">>

\* a Line-mode call with both line numbers given and non-zero, on a regular file
LineCall ==
    /\ call.tool = "fs_read"
    /\ call.params.mode = "Line"
    /\ truthyNum(call.params.start_line)
    /\ truthyNum(call.params.end_line)
    /\ fs[P_x].kind = "file"

\* a line number counted from the end when negative
Resolved(n, k) == IF k < 0 THEN n + k + 1 ELSE k

\* C7: Line mode returns exactly the lines start..end, negative numbers
\* resolved as N + index + 1 and the range clamped to [1, N]; nothing when
\* the resolved end is below the resolved start.
C7_LineRange ==
    LineCall =>
        LET lines == split(fs[P_x].content)
            n == Len(lines)
            s == Max(1, Resolved(n, call.params.start_line[1]))
            e == Min(n, Resolved(n, call.params.end_line[1]))
        IN  call.result = Text(join(SubSeq(lines, s, e)))

\* a Search-mode call with a valid pattern on a regular file
SearchCall ==
    /\ call.tool = "fs_read"
    /\ call.params.mode = "Search"
    /\ truthyStr(call.params.pattern)
    /\ ~invalidRegex(call.params.pattern[1])
    /\ fs[P_x].kind = "file"

\* a numbered line of a block, marked when it is the matched line
Numbered(lines, j, i) ==
    (IF j = i THEN <<">", " ">> ELSE <<" ", " ">>) \o numText(j) \o <<":", " ">> \o lines[j]

\* the block of the match at line i (from 1) with c lines of context
Block(lines, i, c) ==
    LET lo == Max(1, i - c)
        hi == Min(Len(lines), i + c)
    IN  [k \in 1..(hi - lo + 1) |-> Numbered(lines, lo + k - 1, i)]

RECURSIVE Blocks(_, _, _, _)
\* the blocks of the matches from line i on, each but the first after a "--" line
Blocks(lines, pattern, c, i) ==
    IF i > Len(lines) THEN <<>>
    ELSE IF regexTest(pattern, lines[i])
    THEN (IF \E k \in 1..(i - 1) : regexTest(pattern, lines[k]) THEN <<<<"-", "-">>>> ELSE <<>>)
         \o Block(lines, i, c) \o Blocks(lines, pattern, c, i + 1)
    ELSE Blocks(lines, pattern, c, i + 1)

\* C8: Search mode returns "No matches found" when no line matches, and
\* otherwise one block per matching line, blocks separated by one "--"
\* line, each holding the lines from context_lines before to context_lines
\* after the match, for every supplied context_lines (0 included), 2 being
\* used only when none is supplied.
C8_SearchBlocks ==
    SearchCall =>
        LET lines == split(fs[P_x].content)
            pattern == call.params.pattern[1]
            c == IF call.params.context_lines = None THEN 2 ELSE call.params.context_lines[1]
        IN  IF \E i \in DOMAIN lines : regexTest(pattern, lines[i])
            THEN call.result = Text(join(Blocks(lines, pattern, c, 1)))
            ELSE call.result = Msg("No matches found")

\* w occurs in s
Occurs(s, w) == \E i \in 1..(Len(s) - Len(w) + 1) : SubSeq(s, i, i + Len(w) - 1) = w

\* where w first occurs in s (from 1)
FirstAt(s, w) ==
    CHOOSE i \in 1..(Len(s) - Len(w) + 1) :
        /\ SubSeq(s, i, i + Len(w) - 1) = w
        /\ \A j \in 1..(i - 1) : SubSeq(s, j, j + Len(w) - 1) # w

\* a str_replace call on a regular file, old_str being a non-empty string
ReplaceCall ==
    /\ call.tool = "fs_write"
    /\ call.params.command = "str_replace"
    /\ call.params.path # None
    /\ truthyStr(call.params.old_str)
    /\ call.before.kind = "file"

\* C9: str_replace with an old_str that does not occur in the file returns
\* an error string and leaves the file as it was.
C9_ReplaceMissKeepsFile ==
    (ReplaceCall /\ ~Occurs(call.before.content, call.params.old_str[1])) =>
        /\ isError(call.result)
        /\ fs[P_x] = call.before

\* "ab" was to be replaced in a file that holds "a" but not "ab"
C9_Witness ==
    /\ ReplaceCall
    /\ call.params.old_str = <<<<"a","b">>>>
    /\ call.params.new_str = <<<<"b">>>>
    /\ Occurs(call.before.content, <<"a">>)
    /\ ~Occurs(call.before.content, <<"a","b">>)
    /\ call.result = Msg("Error: The string to replace was not found")
    /\ fs[P_x] = call.before

\* C10: str_replace with an old_str that occurs in the file rewrites the
\* file to what precedes the first occurrence, new_str verbatim, and what
\* follows that occurrence, for every new_str (the empty string and strings
\* with $ sequences included).
C10_ReplaceFirstVerbatim ==
    (ReplaceCall /\ call.params.new_str # None
        /\ Occurs(call.before.content, call.params.old_str[1])) =>
        LET old == call.params.old_str[1]
            content == call.before.content
            i == FirstAt(content, old)
        IN  fs[P_x] = FileNode(SubSeq(content, 1, i - 1) \o call.params.new_str[1]
                               \o SubSeq(content, i + Len(old), Len(content)))

\* an append call with a non-empty new_str, on a path that names no file or
\* a regular file
AppendCall ==
    /\ call.tool = "fs_write"
    /\ call.params.command = "append"
    /\ call.params.path # None
    /\ truthyStr(call.params.new_str)
    /\ call.before.kind \in {"noparent", "missing", "file"}

\* C11: append creates a missing file holding exactly new_str; on a file
\* that does not end with a newline the content becomes old, one newline,
\* new_str; on a file that ends with one it becomes old, new_str; the old
\* content is always a prefix of the new.
C11_Append ==
    AppendCall =>
        LET old == call.before.content
            new == call.params.new_str[1]
            now == fs[P_x].content
        IN  /\ ~isError(call.result)
            /\ fs[P_x].kind = "file"
            /\ call.before.kind # "file" => now = new
            /\ (call.before.kind = "file" /\ (old = <<>> \/ old[Len(old)] # "\n")) =>
                  now = old \o <<"\n">> \o new
            /\ (call.before.kind = "file" /\ old # <<>> /\ old[Len(old)] = "\n") =>
                  now = old \o new
            /\ Len(now) >= Len(old)
            /\ SubSeq(now, 1, Len(old)) = old

\* "b" was appended to a file that held "a\n": no separator was added
C11_Witness ==
    /\ AppendCall
    /\ call.before = FileNode(<<"a","\n">>)
    /\ call.params.new_str = <<<<"b">>>>
    /\ fs[P_x] = FileNode(<<"a","\n","b">>)

\* an insert call with a non-empty new_str and an insert_line, on a regular file
InsertCall ==
    /\ call.tool = "fs_write"
    /\ call.params.command = "insert"
    /\ call.params.path # None
    /\ truthyStr(call.params.new_str)
    /\ call.params.insert_line # None
    /\ call.before.kind = "file"

\* C12: insert with insert_line k in [0, N] on a file of N lines makes
\* new_str the line after the original line k (the first line when k = 0,
\* the last when k = N), the original lines keeping their order; with k
\* outside [0, N] it returns an error string and leaves the file as it was.
C12_Insert ==
    InsertCall =>
        LET lines == split(call.before.content)
            n == Len(lines)
            k == call.params.insert_line[1]
            now == split(fs[P_x].content)
        IN  IF k \in 0..n
            THEN /\ ~isError(call.result)
                 /\ Len(now) = n + 1
                 /\ now[k + 1] = call.params.new_str[1]
                 /\ \A i \in 1..k : now[i] = lines[i]
                 /\ \A i \in (k + 1)..n : now[i + 1] = lines[i]
            ELSE /\ isError(call.result)
                 /\ fs[P_x] = call.before

\* "b" was inserted after line 1 of the two lines "a" and ""
C12_Witness ==
    /\ InsertCall
    /\ call.before = FileNode(<<"a","\n">>)
    /\ call.params.insert_line = <<1>>
    /\ call.params.new_str = <<<<"b">>>>
    /\ fs[P_x] = FileNode(<<"a","\n","b","\n">>)

(***************************************************************************)
(* Writing a file and reading it back: fs_write create, then fs_read Full  *)
(* on the path the create was given.                                       *)
(***************************************************************************)
\* what the three paths may name before the create
TripNodes ==
    {[kind |-> k, content |-> <<>>] : k \in {"noparent", "missing", "dir"}}
    \cup {FileNode(<<>>), FileNode(<<"b">>)}

TripPaths == {P_x, P_tilde}
TripTexts == {<<>>, <<"a">>, <<"a","\n","b">>}

InitTrip ==
    /\ cmd = [prog |-> W_ls, args |-> <<>>, given |-> TRUE]
    /\ accept = "unasked"
    /\ fs \in [Paths -> TripNodes]
    /\ call = NoCall
    /\ ChatIdle
    /\ TermIdle

\* FsWriteTool.execute({command: 'create', path, file_text})
TripCreate ==
    \E p \in TripPaths, t \in TripTexts :
        LET params == [NoWriteParams EXCEPT !.path = <<p>>, !.file_text = <<t>>]
            r == fsWriteExecute(fs, params)
        IN  /\ call = NoCall
            /\ fs' = r.files
            /\ call' = [tool |-> "fs_write", params |-> params, before |-> fs[p],
                        outcome |-> r.outcome, result |-> r.result]
            /\ UNCHANGED <<bashVars, chatVars, termVars>>

\* FsReadTool.execute({path, mode: 'Full'}) on the path of the create
TripRead ==
    LET params == [NoReadParams EXCEPT !.path = call.params.path]
        r == fsReadExecute(fs, params, TRUE)
    IN  /\ call # NoCall
        /\ call.tool = "fs_write"
        /\ call' = [tool |-> "fs_read", params |-> params, written |-> call.params,
                    before |-> call.before, outcome |-> r.outcome, result |-> r.result]
        /\ UNCHANGED <<fs, bashVars, chatVars, termVars>>

\* the runtime takes the result of the read
TripEnd ==
    /\ call # NoCall
    /\ call.tool = "fs_read"
    /\ call' = NoCall
    /\ UNCHANGED <<fs, bashVars, chatVars, termVars>>

NextTrip == TripCreate \/ TripRead \/ TripEnd

SpecTrip == InitTrip /\ [][NextTrip]_vars

\* C13: create with (path, file_text) followed by a Full read of the same
\* path returns exactly file_text, for every file_text (the empty string
\* included) and every path (those beginning with ~ included), whether or
\* not the path named a file before.
C13_RoundTrip ==
    (call # NoCall /\ call.tool = "fs_read"
        /\ call.before.kind \in {"noparent", "missing", "file"}) =>
        call.result = Text(call.written.file_text[1])

(***************************************************************************)
(* Properties of the session loop.                                         *)
(***************************************************************************)
\* C14: once /quit is read at the session prompt the line is not forwarded
\* to the agent, the agent's shutdown has been requested and has completed,
\* and the process has ended with status 0.
C14_QuitShutsDown ==
    question.kind = "closed" =>
        /\ tally.runs = tally.lines
        /\ shutdown = "done"
        /\ proc = "exit0"

\* C15: a turn that fails is caught and reported, the process lives on and
\* a new session prompt is asked; the process ends only on /quit or on a
\* systemClosed event.
C15_TurnFailureSurvives ==
    /\ turn = "failed" =>
          /\ proc = "running"
          /\ question.kind = "prompt"
    /\ proc # "running" => (question.kind = "closed" \/ proc = "exit0")

\* C16: every line other than /quit is forwarded to agent.run exactly once,
\* and exactly one session prompt is asked after each run that completes
\* and none before: at most one run is in flight, and no session prompt
\* waits while one is.
C16_OneTurnOnePrompt ==
    /\ tally.runs = tally.lines
    /\ tally.prompts = tally.completed + 1
    /\ tally.runs - tally.completed \in {0, 1}
    /\ turn = "running" => (question.kind # "prompt" /\ tally.runs = tally.completed + 1)
    /\ question.kind = "prompt" => (turn = "idle" /\ tally.runs = tally.completed)

\* the second turn is under way: the first completed and was followed by
\* one prompt, on which the second line was read
C16_Witness ==
    /\ tally = [lines |-> 2, runs |-> 2, completed |-> 1, prompts |-> 2]
    /\ turn = "running"
    /\ question.kind = "none"

\* C17: while a confirmation waits, a line typed is taken as its answer
\* only: no line is read as a session line and no run is started, /quit is
\* reported as a denial like any answer but y, and neither shutdown nor
\* exit follows; readline is closed by /quit at the session prompt only.
C17_AnswerOnly ==
    [][/\ question.kind = "confirm" =>
             /\ tally' = tally
             /\ shutdown' = shutdown
             /\ proc' = "running"
             /\ question'.kind = "none"
             /\ Len(answers') = Len(answers) + 1
             /\ Len(confirmations') = Len(confirmations) + 1
             /\ confirmations'[Len(confirmations')] =
                   [toolUseId |-> question.toolUseId,
                    approved |-> answers'[Len(answers')].answer \in {<<"y">>, <<"Y">>}]
       /\ question'.kind = "closed" => (question.kind = "prompt" /\ turn = "idle")
      ]_vars

\* /QUIT was typed while the confirmation of call 1 waited, in the first
\* turn: it was taken as a denial and the turn goes on
C17_Witness ==
    /\ answers = <<[toolUseId |-> 1, answer |-> <<"/","Q","U","I","T">>]>>
    /\ confirmations = <<[toolUseId |-> 1, approved |-> FALSE]>>
    /\ tally = [lines |-> 1, runs |-> 1, completed |-> 0, prompts |-> 1]
    /\ question.kind = "none"
    /\ turn = "running"
    /\ proc = "running"
    /\ shutdown = "none"

\* C18: whenever FsWriteTool.execute returns a string that begins with
\* "Error:", the filesystem is as it was before the call: no content is
\* changed and no file or directory is created.
C18_ErrorLeavesFilesystem ==
    (call # NoCall /\ call.tool = "fs_write" /\ isError(call.result)) =>
        fs[P_x] = call.before

(***************************************************************************)
(* Rendering a file update: the fileUpdateContent handler calls printDiff, *)
(* which prints the parts diff.diffLines returns.                          *)
(***************************************************************************)
MaxParts == 2       \* the parts of one diff

\* the character \ and the two characters '\\n' of the source, a backslash and an n
Backslash == "\\"
BackslashN == <<Backslash, "n">>

RECURSIVE splitOnFrom(_, _, _, _)
\* the pieces of s from character i on, cur being the piece under way
splitOnFrom(s, sep, i, cur) ==
    IF i > Len(s) THEN <<cur>>
    ELSE IF At(s, i - 1, sep) THEN <<cur>> \o splitOnFrom(s, sep, i + Len(sep), <<>>)
    ELSE splitOnFrom(s, sep, i + 1, Append(cur, s[i]))

\* String.prototype.split(sep), sep a non-empty string
splitOn(s, sep) == splitOnFrom(s, sep, 1, <<>>)

\* .filter(line => line.length > 0)
nonEmpty(lines) == SelectSeq(lines, LAMBDA line : Len(line) > 0)

\* part.added ? makeGreenText : part.removed ? makeRedText : makeDimText
colorOf(part) == IF part.added THEN "green" ELSE IF part.removed THEN "red" ELSE "dim"

\* part.added ? '+ ' : part.removed ? '- ' : '  '
prefixOf(part) ==
    IF part.added THEN <<"+"," ">> ELSE IF part.removed THEN <<"-"," ">> ELSE <<" "," ">>

\* the console.log calls made for one part
printPart(part) ==
    LET lines == nonEmpty(splitOn(part.value, BackslashN))
    IN  [i \in DOMAIN lines |-> [color |-> colorOf(part), text |-> prefixOf(part) \o lines[i]]]

RECURSIVE printDiff(_)
\* changes.forEach(part => ...)
printDiff(parts) ==
    IF parts = <<>> THEN <<>> ELSE printPart(Head(parts)) \o printDiff(Tail(parts))

\* the values of the parts: whole lines, each ended by a newline
DiffValues ==
    {<<"a","\n">>, <<"b","\n">>, <<"a","\n","b","\n">>, <<"a",Backslash,"n","b","\n">>}

\* the parts diff.diffLines(oldContent, newContent) may return
DiffParts ==
    {[added |-> k = "added", removed |-> k = "removed", value |-> v] :
        k \in {"added", "removed", "same"}, v \in DiffValues}

InitDiff ==
    /\ cmd = [prog |-> W_ls, args |-> <<>>, given |-> TRUE]
    /\ accept = "unasked"
    /\ fs = [p \in Paths |-> MissingNode]
    /\ call = NoCall
    /\ ChatIdle
    /\ TermIdle

\* fileUpdateContent: (event) => { printDiff(event.oldStr, event.newStr) }
FileUpdateContent ==
    \E n \in 1..MaxParts : \E parts \in [1..n -> DiffParts] :
        /\ changes' = parts
        /\ terminal' = printDiff(parts)
        /\ UNCHANGED <<bashVars, toolVars, chatVars>>

NextDiff == FileUpdateContent

SpecDiff == InitDiff /\ [][NextDiff]_vars

RECURSIVE Shown(_)
\* the lines the terminal shows for the calls, each with its colour; a line
\* that is empty or holds a prefix alone shows no line of the file
Shown(calls) ==
    IF calls = <<>> THEN <<>>
    ELSE LET c == Head(calls)
             ls == SelectSeq(split(c.text),
                             LAMBDA l : l \notin {<<>>, <<"+"," ">>, <<"-"," ">>, <<" "," ">>})
         IN  [i \in DOMAIN ls |-> [color |-> c.color, text |-> ls[i]]] \o Shown(Tail(calls))

RECURSIVE Rendered(_)
\* every non-empty line of every part, prefixed and coloured as its part
Rendered(parts) ==
    IF parts = <<>> THEN <<>>
    ELSE LET part == Head(parts)
             ls == SelectSeq(split(part.value), LAMBDA l : l # <<>>)
         IN  [i \in DOMAIN ls |-> [color |-> colorOf(part), text |-> prefixOf(part) \o ls[i]]]
             \o Rendered(Tail(parts))

\* C19: on a fileUpdateContent event every non-empty line of an added part
\* is shown on a line of its own after "+ ", every one of a removed part
\* after "- ", every unchanged one dimmed after two spaces, parts of
\* several lines included.
C19_DiffLines ==
    Shown(terminal) = Rendered(changes)

====
